---------------------------- MODULE Spec2Model ----------------------------
(***************************************************************************)
(* A model of sqlitepp.hpp: the column loaders, the statement wrapper, the *)
(* database wrapper and its savepoint-based atomic().                      *)
(*                                                                         *)
(* The SQLite engine is the library behind the sqlite3_* calls.  Its       *)
(* behaviour is modelled at the call sites, as the SQLite documentation    *)
(* gives it; where a build option decides the behaviour, both outcomes are *)
(* kept.                                                                   *)
(***************************************************************************)
EXTENDS Integers, Sequences, FiniteSets, TLC

VARIABLES
    \* ---- loader<blob<T>> / loader<vector<T>> ----
    blobIn,         \* the column being decoded: [len, esize]
    blobOut,        \* the last decode: NoResult or [target, threw, size]
    \* ---- the engine behind one connection ----
    rows,           \* the rows of the table, as the connection sees them
    savepoints,     \* the engine's savepoint stack: Seq of [name, snap]
    autoreset,      \* build option: FALSE when built with SQLITE_OMIT_AUTORESET
    \* ---- one statement object of the caller ----
    stmt,           \* the native statement it owns, or NoStmt
    exhausted,      \* step() returned false and reset() was not called since
    last,           \* what the last operation on it did
    \* ---- one database object and the atomic blocks running on it ----
    transaction_id, \* database::transaction_id
    frames,         \* the atomic calls whose work is running, outermost first
    done,           \* the atomic calls that have returned or thrown, in order
    exc,            \* the exception in flight in the innermost work, or "none"
    seen,           \* the rows the caller's last query returned
    seenAt,         \* Len(done) when that query ran
    nextRow,        \* the value of the next row the caller writes
    issued,         \* the SQL atomic has passed to execute, in order
    \* ---- the native handles and the objects that hold them ----
    handles,        \* the handles the engine has allocated: Seq of [kind, released]
    dbObj,          \* each database object's db member, or NoObject
    stObj,          \* each statement object's stmt member, or NoObject
    lastOpen,       \* the last database construction: [threw, h]
    counter,        \* each database object's transaction_id member
    names,          \* the numbers of the savepoints set over each handle, in order
    \* ---- one statement positioned on a row, and the caller decoding it ----
    rowCols,        \* the columns of the current row, ordinal 0 first
    rowAt,          \* where the statement stands: [pc, pos]
    got,            \* the last get / get_all: what was asked and returned
    \* ---- a caller reusing one statement ----
    fetched,        \* the rows step() gave since the last reset: [rows, clean, bound]
    \* ---- text buffers of the caller and a text parameter ----
    buffers,        \* each buffer: [state, bytes]
    textParam,      \* what the engine holds for the parameter
    textUsed        \* what the last step read for it

blobVars == <<blobIn, blobOut>>
engVars == <<rows, savepoints, autoreset>>
stmtVars == <<stmt, exhausted, last>>

rowVars == <<rowCols, rowAt, got>>
textVars == <<buffers, textParam, textUsed>>
ownVars == <<handles, dbObj, stObj, lastOpen, counter, names>>
txVars == <<transaction_id, frames, done, exc, seen, seenAt, nextRow,
            issued>>

vars == <<blobIn, blobOut, rows, savepoints, autoreset, stmt, exhausted, last,
          transaction_id, frames, done, exc, seen, seenAt, nextRow,
          handles, dbObj, stObj, lastOpen, rowCols, rowAt, got,
          fetched, buffers, textParam, textUsed, issued, counter, names>>

NoResult == [target |-> "none", threw |-> FALSE, size |-> -1]

-----------------------------------------------------------------------------
(* Bounds *)

MaxBlobLen == 16
MaxVal == 2
MaxArgs == 2
MaxTrace == 5
MaxAtomic == 2
MaxDepth == 2
MaxRows == 2
MaxDbObjects == 2
MaxStObjects == 2
MaxHandles == 3
MaxCols == 2
MaxTypes == 2
MaxCalls == 10
MaxBuffers == 2

(***************************************************************************)
(* sizeof(T) of the element types a blob is read as.  VoidSize stands for  *)
(* T = void, which has no size: the code never evaluates sizeof(void).     *)
(***************************************************************************)
ElemSizes == {1, 2, 4, 8}
VoidSize == 0

-----------------------------------------------------------------------------
(* loader<blob<T>>::get and loader<std::vector<T>>::get *)

\* A decode that throws returns nothing: the size is the marker -1.
Thrown(target) == [target |-> target, threw |-> TRUE, size |-> -1]

Returned(target, n) == [target |-> target, threw |-> FALSE, size |-> n]

loader_blob_get(length, esize) ==
    IF esize # VoidSize /\ length % esize # 0
    THEN Thrown("blob")
    ELSE IF esize = VoidSize
         THEN Returned("blob", length)
         ELSE Returned("blob", length \div esize)

loader_vector_get_unchecked(length, esize) ==
    Returned("vector", length \div esize)

\* std::vector<T>(begin, end) holds (end - begin) / sizeof(T) elements.
loader_vector_get(length, esize) ==
    IF length % esize # 0
    THEN Thrown("vector")
    ELSE Returned("vector", length \div esize)

-----------------------------------------------------------------------------
(* The scalar loaders, loader<std::optional<T>>, statement::get and        *)
(* statement::get_all                                                      *)

\* A 64-bit integer as its two halves: hi * 2^32 + lo, with lo below 2^31.
Int64(hi, lo) == [hi |-> hi, lo |-> lo]

Zero == Int64(0, 0)

\* A column of the current row as the engine holds it: its native type and,
\* for an integer, its 64-bit value.
Column(type, i) == [type |-> type, i |-> i]

NullColumn == Column("NULL", Zero)

\* The integers the columns of the model hold: 0, 1 and 2^32 + 1, which
\* does not fit 32 bits.
ColumnInts == {Zero, Int64(0, 1), Int64(1, 1)}

ColumnValues == {NullColumn} \cup {Column("INTEGER", i) : i \in ColumnInts}

\* What a decode returns. kind is "int" for the integer types and "text"
\* for std::string, whose i is the integer the text spells, or "empty" for
\* the empty string; present is FALSE for an empty std::optional only.
Decoded(present, kind, i) == [present |-> present, kind |-> kind, i |-> i]

Absent == Decoded(FALSE, "none", Zero)

\* The types a column is decoded as.
PlainTypes == {"int32", "int64", "string"}

Type(base, optional) == [base |-> base, optional |-> optional]

Types == {Type(b, o) : b \in PlainTypes, o \in BOOLEAN}

\* The low 32 bits of i as a signed integer.
Wrap32(i) == Int64(0, i.lo)

\* sqlite3_column_type
sqlite3_column_type(c) == c.type

\* sqlite3_column_int: 0 for NULL, else the low 32 bits of the value.
sqlite3_column_int(c) == IF c.type = "NULL" THEN Zero ELSE Wrap32(c.i)

\* sqlite3_column_int64: 0 for NULL.
sqlite3_column_int64(c) == IF c.type = "NULL" THEN Zero ELSE c.i

\* sqlite3_column_bytes and sqlite3_column_text: no bytes for NULL, else
\* the decimal text of the integer.
sqlite3_column_text(c) ==
    IF c.type = "NULL" THEN Decoded(TRUE, "empty", Zero)
    ELSE Decoded(TRUE, "text", c.i)

\* loader<std::int32_t>::get, loader<std::int64_t>::get and
\* loader<std::string>::get
loader_plain_get(base, c) ==
    CASE base = "int32" -> Decoded(TRUE, "int", sqlite3_column_int(c))
      [] base = "int64" -> Decoded(TRUE, "int", sqlite3_column_int64(c))
      [] base = "string" -> sqlite3_column_text(c)

\* loader<std::optional<T>>::get taking the value 0 for no value.
loader_optional_get_by_value(base, c) ==
    IF sqlite3_column_int64(c) = Zero THEN Absent ELSE loader_plain_get(base, c)

\* loader<std::optional<T>>::get
loader_optional_get(base, c) ==
    IF sqlite3_column_type(c) = "NULL" THEN Absent
    ELSE loader_plain_get(base, c)

loader_get(T, c) ==
    IF T.optional THEN loader_optional_get(T.base, c)
    ELSE loader_plain_get(T.base, c)

\* The column the sqlite3_column_* calls read at an ordinal counted from 0.
\* Past the last column the engine's result is undefined: oob is what it
\* happens to read.
ColumnAt(cols, index, oob) ==
    IF index + 1 \in 1..Len(cols) THEN cols[index + 1] ELSE oob

\* statement::get<Index, T>
get(cols, Index, T, oob) == loader_get(T, ColumnAt(cols, Index, oob))

\* statement::get_all reading column ordinal k for its k-th component.
get_all_from_one(cols, Ts, oob) ==
    [k \in 1..Len(Ts) |-> loader_get(Ts[k], ColumnAt(cols, k, oob))]

\* statement::get_all<T1, ..., Tn>: loader<Tk>::get(stmt, k - 1) for each k.
get_all(cols, Ts, oob) ==
    [k \in 1..Len(Ts) |-> loader_get(Ts[k], ColumnAt(cols, k - 1, oob))]

-----------------------------------------------------------------------------
(* The engine: sqlite3_prepare_v2, sqlite3_reset, sqlite3_bind_*, sqlite3_step *)

NULL == 0

Values == 1..MaxVal

\* The SQL texts the model distinguishes. n is the savepoint number of
\* "savepoint s<n>", "release savepoint s<n>" and
\* "rollback transaction to savepoint s<n>", and 0 otherwise.
Sql(kind, n) == [kind |-> kind, n |-> n]

InsertSql == Sql("insert", 0)       \* insert into foo values (?)
SelectSql == Sql("select", 0)       \* select id from foo
RangeSql == Sql("range", 0)         \* select id from foo where id between ? and ?

nparams(sql) ==
    IF sql.kind = "insert" THEN 1 ELSE IF sql.kind = "range" THEN 2 ELSE 0

\* binds lists the native bind calls of the statement's last bind_multiple.
NoStmt == [sql |-> Sql("none", 0), params |-> <<>>, pc |-> "none", pos |-> 0,
           trace |-> <<>>, binds |-> <<>>]

Engine(r, sp) == [rows |-> r, savepoints |-> sp]

\* sqlite3_prepare_v2: on failure *ppStmt is set to NULL.
sqlite3_prepare_v2(sql, ok) ==
    IF ok
    THEN [rc |-> "OK",
          stmt |-> [sql |-> sql, params |-> [i \in 1..nparams(sql) |-> NULL],
                    pc |-> "ready", pos |-> 0, trace |-> <<"prepare">>,
                    binds |-> <<>>]]
    ELSE [rc |-> "ERROR", stmt |-> NoStmt]

\* sqlite3_reset: back to the start of the program; bindings are kept.
sqlite3_reset(s) ==
    [s EXCEPT !.pc = "ready", !.pos = 0, !.trace = Append(@, "reset")]

\* sqlite3_bind_*(stmt, pos1, v), pos1 counted from 1. SQLITE_MISUSE on a
\* statement that is running, SQLITE_RANGE on a position the SQL does not have.
sqlite3_bind(s, pos1, v) ==
    LET call(rc) == [pos |-> pos1, v |-> v, rc |-> rc]
    IN  IF s.pc # "ready"
        THEN [s EXCEPT !.trace = Append(@, "bind"),
                       !.binds = Append(@, call("MISUSE"))]
        ELSE IF pos1 \notin 1..Len(s.params)
        THEN [s EXCEPT !.trace = Append(@, "bind"),
                       !.binds = Append(@, call("RANGE"))]
        ELSE [s EXCEPT !.params[pos1] = v, !.trace = Append(@, "bind"),
                       !.binds = Append(@, call("OK"))]

\* The index of the most recent savepoint named n, or 0.
FindSavepoint(sp, n) ==
    LET hits == {i \in 1..Len(sp) : sp[i].name = n}
    IN  IF hits = {} THEN 0 ELSE CHOOSE i \in hits : \A j \in hits : j <= i

\* The rows a query selects. A comparison with NULL selects nothing.
Matching(s, rs) ==
    IF s.sql.kind = "range"
    THEN {r \in rs : /\ r # NULL /\ s.params[1] # NULL /\ s.params[2] # NULL
                     /\ s.params[1] <= r /\ r <= s.params[2]}
    ELSE rs

\* The k-th row of a set of rows, in the order the engine returns them.
Nth(rs, k) == CHOOSE r \in rs : Cardinality({q \in rs : q < r}) = k - 1

\* The result set of a query: its rows in order.
ResultSet(s, rs) ==
    [k \in 1..Cardinality(Matching(s, rs)) |-> Nth(Matching(s, rs), k)]

\* One run of the statement's program from its current position. The table
\* holds each value once: inserting a value it holds is a constraint
\* violation; a NULL never is.
RunProgram(s, eng, fault) ==
    LET halt(rc, e) == [rc |-> rc, stmt |-> [s EXCEPT !.pc = "halted"], eng |-> e]
        k == FindSavepoint(eng.savepoints, s.sql.n)
    IN  IF fault # "none" THEN halt(fault, eng)
        ELSE CASE s.sql.kind = "insert" ->
                    IF s.params[1] # NULL /\ s.params[1] \in eng.rows
                    THEN halt("CONSTRAINT", eng)
                    ELSE halt("DONE", Engine(eng.rows \cup {s.params[1]},
                                             eng.savepoints))
               [] s.sql.kind \in {"select", "range"} ->
                    IF s.pos < Cardinality(Matching(s, eng.rows))
                    THEN [rc |-> "ROW",
                          stmt |-> [s EXCEPT !.pc = "row", !.pos = @ + 1],
                          eng |-> eng]
                    ELSE halt("DONE", eng)
               [] s.sql.kind = "savepoint" ->
                    halt("DONE", Engine(eng.rows,
                            Append(eng.savepoints,
                                   [name |-> s.sql.n, snap |-> eng.rows])))
               [] s.sql.kind = "release" ->
                    IF k = 0 THEN halt("ERROR", eng)
                    ELSE halt("DONE", Engine(eng.rows,
                                             SubSeq(eng.savepoints, 1, k - 1)))
               [] s.sql.kind = "rollback" ->
                    IF k = 0 THEN halt("ERROR", eng)
                    ELSE halt("DONE", Engine(eng.savepoints[k].snap,
                                             SubSeq(eng.savepoints, 1, k)))

\* sqlite3_step on a statement made by sqlite3_prepare_v2. Called on a
\* statement that has halted (SQLITE_DONE or an error) without a reset, it
\* resets the statement itself and runs it again, or, in a build with
\* SQLITE_OMIT_AUTORESET, returns SQLITE_MISUSE.
sqlite3_step(s, eng, fault, auto) ==
    LET t == [s EXCEPT !.trace = Append(@, "step")]
    IN  IF t.pc = "halted"
        THEN IF auto
             THEN RunProgram([t EXCEPT !.pc = "ready", !.pos = 0], eng, fault)
             ELSE [rc |-> "MISUSE", stmt |-> t, eng |-> eng]
        ELSE RunProgram(t, eng, fault)

-----------------------------------------------------------------------------
(* class statement *)

\* statement::statement(sqlite3*, string_view): throws when prepare fails.
statement_ctor(sql, ok) ==
    LET p == sqlite3_prepare_v2(sql, ok)
    IN  [threw |-> p.rc # "OK", stmt |-> p.stmt]

\* statement::reset clearing the bindings in place of resetting.
reset_bindings_only(s) ==
    [s EXCEPT !.params = [i \in 1..Len(s.params) |-> NULL],
              !.trace = Append(@, "reset")]

\* statement::reset
reset(s) == sqlite3_reset(s)

\* statement::bind writing to the native position index.
bind_unshifted(s, index, item) == sqlite3_bind(s, index, item)

\* statement::bind(index, item): the native position is index + 1; the
\* native result code is dropped.
bind(s, index, item) == sqlite3_bind(s, index + 1, item)

\* statement::bind_multiple(args...): (bind(I, args), ...) for I = 0, 1, ...
RECURSIVE bind_from(_, _, _)
bind_from(s, args, i) ==
    IF i >= Len(args) THEN s
    ELSE bind_from(bind(s, i, args[i + 1]), args, i + 1)

bind_multiple(s, args) == bind_from([s EXCEPT !.binds = <<>>], args, 0)

\* statement::step, retrying while the engine is busy.
step_retrying(s, eng, fault, auto) ==
    LET r1 == sqlite3_step(s, eng, fault, auto)
        r2 == sqlite3_step(r1.stmt, r1.eng, "none", auto)
        r == IF r1.rc = "BUSY" THEN r2 ELSE r1
    IN  [ret |-> IF r.rc = "ROW" THEN "true"
                 ELSE IF r.rc = "DONE" THEN "false" ELSE "throw",
         natives |-> IF r1.rc = "BUSY" THEN <<r1.rc, r2.rc>> ELSE <<r1.rc>>,
         stmt |-> r.stmt, eng |-> r.eng]

\* statement::step. natives lists the result codes of the native step
\* calls it made.
step(s, eng, fault, auto) ==
    LET r == sqlite3_step(s, eng, fault, auto)
    IN  [ret |-> IF r.rc = "ROW" THEN "true"
                 ELSE IF r.rc = "DONE" THEN "false" ELSE "throw",
         natives |-> <<r.rc>>,
         stmt |-> r.stmt, eng |-> r.eng]

-----------------------------------------------------------------------------
(* statement::bind(int, std::string_view) and sqlite3_bind_text *)

\* sqlite3_bind_text(stmt, pos, data, n, destructor). With SQLITE_TRANSIENT
\* the engine copies the bytes before it returns; with SQLITE_STATIC it
\* keeps the pointer and reads the bytes when the statement runs. bound is
\* what the buffer held at the call.
sqlite3_bind_text(ptr, bytes, destructor) ==
    IF destructor = "SQLITE_TRANSIENT"
    THEN [kind |-> "copy", ptr |-> 0, bytes |-> bytes, bound |-> bytes]
    ELSE [kind |-> "static", ptr |-> ptr, bytes |-> "none", bound |-> bytes]

\* statement::bind(index, string_view item): the destructor argument is
\* nullptr, which is SQLITE_STATIC.
bind_text(ptr, bytes) == sqlite3_bind_text(ptr, bytes, "SQLITE_STATIC")

\* The bytes sqlite3_step reads for the parameter. Reading a buffer that is
\* no longer alive is undefined: junk is what the read comes to.
sqlite3_step_reads(param, bufs, junk) ==
    IF param.kind = "copy" THEN param.bytes
    ELSE IF bufs[param.ptr].state = "alive" THEN bufs[param.ptr].bytes
    ELSE junk

-----------------------------------------------------------------------------
(* database::prepare and database::execute *)

\* database::prepare
prepare(sql, ok) == statement_ctor(sql, ok)

\* database::execute that also steps the statement once.
execute_stepping(eng, sql, args, ok, auto) ==
    LET p == prepare(sql, ok)
        r == step(bind_multiple(reset(p.stmt), args), eng, "none", auto)
    IN  IF p.threw
        THEN [threw |-> TRUE, stmt |-> NoStmt, eng |-> eng]
        ELSE [threw |-> r.ret = "throw", stmt |-> r.stmt, eng |-> r.eng]

\* database::execute: prepare, reset, bind_multiple, return the statement.
\* The engine's state is returned as it was given: no call here changes it.
execute(eng, sql, args, ok, auto) ==
    LET p == prepare(sql, ok)
    IN  IF p.threw
        THEN [threw |-> TRUE, stmt |-> NoStmt, eng |-> eng]
        ELSE [threw |-> FALSE,
              stmt |-> bind_multiple(reset(p.stmt), args),
              eng |-> eng]

-----------------------------------------------------------------------------
(* database::atomic *)

\* The exceptions of the model. "AppError" is what the caller's work throws
\* of its own; "SqlError" is the std::exception of a statement the work
\* prepared or stepped. "BeginFailed", "RollbackFailed" and "ReleaseFailed"
\* are the std::exception thrown by the statement constructor inside
\* atomic's own three execute calls.

\* this->transaction_id++ leaving the counter as it was.
next_id_kept(tid) == [id |-> tid, transaction_id |-> tid]

\* int transaction_id = this->transaction_id++
next_id(tid) == [id |-> tid, transaction_id |-> tid + 1]

\* atomic releasing its savepoint as soon as it has set it.
atomic_begin_released(eng, id, ok, auto) ==
    LET r == execute(eng, Sql("savepoint", id), <<>>, ok, auto)
    IN  [threw |-> r.threw, err |-> IF r.threw THEN "BeginFailed" ELSE "none",
         eng |-> r.eng,
         issued |-> <<Sql("savepoint", id), Sql("release", id)>>]

\* atomic up to the call of func: take the id, execute(begin_sql). The
\* statement execute returns is a temporary, destroyed at once.
atomic_begin(eng, id, ok, auto) ==
    LET r == execute(eng, Sql("savepoint", id), <<>>, ok, auto)
    IN  [threw |-> r.threw, err |-> IF r.threw THEN "BeginFailed" ELSE "none",
         eng |-> r.eng, issued |-> <<Sql("savepoint", id)>>]

\* atomic's catch (...) block: execute(rollback_sql), then throw; an
\* exception leaving execute leaves the handler in place of the rethrow.
atomic_catch(eng, id, e, ok, auto) ==
    LET r == execute(eng, Sql("rollback", id), <<>>, ok, auto)
    IN  [threw |-> TRUE, err |-> IF r.threw THEN "RollbackFailed" ELSE e,
         eng |-> r.eng, issued |-> <<Sql("rollback", id)>>]

\* atomic after func returned, always leaving by an exception.
atomic_commit_throwing(eng, id, ok, auto) ==
    LET r == execute(eng, Sql("release", id), <<>>, ok, auto)
    IN  [threw |-> TRUE, err |-> "ReleaseFailed", eng |-> r.eng,
         issued |-> <<Sql("release", id)>>]

\* atomic with execute(commit_sql) inside the try block: a failed release is
\* caught and rolled back.
atomic_commit_in_try(eng, id, ok, auto) ==
    LET r == execute(eng, Sql("release", id), <<>>, ok, auto)
        c == atomic_catch(r.eng, id, "ReleaseFailed", ok, auto)
    IN  IF r.threw
        THEN [c EXCEPT !.issued = <<Sql("release", id)>> \o @]
        ELSE [threw |-> FALSE, err |-> "none", eng |-> r.eng,
              issued |-> <<Sql("release", id)>>]

\* atomic after func returned: execute(commit_sql).
atomic_commit(eng, id, ok, auto) ==
    LET r == execute(eng, Sql("release", id), <<>>, ok, auto)
    IN  [threw |-> r.threw, err |-> IF r.threw THEN "ReleaseFailed" ELSE "none",
         eng |-> r.eng, issued |-> <<Sql("release", id)>>]

\* The caller's write: db.execute("insert into foo values (?)", v), then
\* step() until it returns false.
work_write(eng, v, ok, fault, auto) ==
    LET e == execute(eng, InsertSql, <<v>>, ok, auto)
        s == step(e.stmt, e.eng, fault, auto)
    IN  IF e.threw THEN [threw |-> TRUE, eng |-> e.eng]
        ELSE [threw |-> s.ret = "throw", eng |-> s.eng]

\* The caller's query: db.execute("select id from foo"), then step() and
\* get until step() returns false. It reads every row the connection sees.
query(eng) == eng.rows

-----------------------------------------------------------------------------
(* Ownership of the native handles: the special members of statement and   *)
(* database                                                                *)

NoObject == -1      \* the slot holds no object
Nullptr == 0        \* the object's handle member is nullptr

DbSlots == 1..MaxDbObjects
StSlots == 1..MaxStObjects

\* sqlite3_finalize and sqlite3_close_v2: a no-op on a null handle,
\* otherwise one more release of the handle.
release(hs, h) ==
    IF h = Nullptr THEN hs ELSE [hs EXCEPT ![h].released = @ + 1]

\* sqlite3_open_v2 as the constructor calls it. It returns a connection
\* handle in *ppDb also when it fails, unless it could not allocate one.
\* database::database(filename, flags) throws on a non-zero result; the
\* object then never existed and its destructor does not run.
database_ctor(h, outcome) ==
    [threw |-> outcome # "ok",
     db |-> IF outcome = "nomem" THEN Nullptr ELSE h]

\* database::database(database&&)
database_move_ctor(other) == [this |-> other, other |-> Nullptr]

\* database::database(database&&) giving the new object a counter of its own.
database_move_ctor_id_fresh(otherId) == [this |-> 0, other |-> 0]

\* database::database(database&&), the transaction_id member:
\* transaction_id(other.transaction_id), then other.transaction_id = 0.
database_move_ctor_id(otherId) == [this |-> otherId, other |-> 0]

\* database::~database
database_dtor(hs, db) == release(hs, db)

\* statement::statement(sqlite3*, sql): sqlite3_prepare_v2 leaves *ppStmt
\* NULL when it fails, and it fails on a null connection.
statement_ctor_handle(db, h, fail) ==
    [threw |-> db = Nullptr \/ fail,
     stmt |-> IF db = Nullptr \/ fail THEN Nullptr ELSE h]

\* statement::statement(statement&&)
statement_move_ctor(other) == [this |-> other, other |-> Nullptr]

\* statement::operator=(statement&&): finalize this->stmt, take other.stmt,
\* null other.stmt. With self set, other is this object.
statement_move_assign(hs, this, other, self) ==
    [hs |-> release(hs, this),
     this |-> IF self THEN Nullptr ELSE other,
     other |-> Nullptr]

\* statement::~statement
statement_dtor(hs, stmtHandle) == release(hs, stmtHandle)

-----------------------------------------------------------------------------
(* Decoding one blob column *)

BlobIdle ==
    /\ blobIn = [len |-> 0, esize |-> VoidSize]
    /\ blobOut = NoResult

EngineIdle ==
    /\ rows = {}
    /\ savepoints = <<>>
    /\ autoreset = TRUE

\* What an operation on the statement did: its result, the result codes of
\* the native step calls it made, and what it was called with and on.
Op(op, ret, natives, args, fault, rowsBefore, wasExhausted) ==
    [op |-> op, ret |-> ret, natives |-> natives, args |-> args,
     fault |-> fault, rowsBefore |-> rowsBefore, wasExhausted |-> wasExhausted,
     paramsBefore |-> <<>>, pcBefore |-> "none"]

NoOp == Op("none", "none", <<>>, <<>>, "none", {}, FALSE)

StmtIdle ==
    /\ stmt = NoStmt
    /\ exhausted = FALSE
    /\ last = NoOp

\* The work of an atomic call in progress: the rows it wrote itself, the
\* rows of the inner blocks that returned normally, and those among them
\* whose block ran after the work's own first write.
Frame(id) == [id |-> id, wrote |-> {}, inner |-> {}, innerAfter |-> {}]

\* database::database: transaction_id = 0.
TxIdle ==
    /\ transaction_id = 0
    /\ frames = <<>>
    /\ done = <<>>
    /\ exc = "none"
    /\ seen = {}
    /\ seenAt = 0
    /\ nextRow = 1
    /\ issued = <<>>

OwnIdle ==
    /\ handles = <<>>
    /\ dbObj = [d \in DbSlots |-> NoObject]
    /\ stObj = [s \in StSlots |-> NoObject]
    /\ lastOpen = [threw |-> FALSE, h |-> Nullptr]
    /\ counter = [d \in DbSlots |-> 0]
    /\ names = [h \in 1..MaxHandles |-> <<>>]

\* No statement is positioned on a row and nothing was decoded.
RowPos(pc, pos) == [pc |-> pc, pos |-> pos]

Got(op, index, Ts, result, oob, before) ==
    [op |-> op, index |-> index, Ts |-> Ts, result |-> result, oob |-> oob,
     before |-> before]

NoGot == Got("none", 0, <<>>, <<>>, NullColumn, RowPos("ready", 0))

RowIdle ==
    /\ rowCols = <<>>
    /\ rowAt = RowPos("ready", 0)
    /\ got = NoGot

\* What the caller has collected from a statement: the rows of the step()
\* calls that returned true since the last reset, whether every step since
\* then was made before the end of the rows and returned, and the
\* parameters the caller has bound.
Fetched(rs, clean, bound) == [rows |-> rs, clean |-> clean, bound |-> bound]

ReuseIdle == fetched = Fetched(<<>>, TRUE, <<>>)

\* A text buffer of the caller: not yet allocated, alive, or freed.
Buffer(state, bytes) == [state |-> state, bytes |-> bytes]

BufIds == 1..MaxBuffers

NoTextParam == [kind |-> "null", ptr |-> 0, bytes |-> "none", bound |-> "none"]

NoTextUse == [op |-> "none", read |-> "none", bound |-> "none", dead |-> FALSE]

TextIdle ==
    /\ buffers = [b \in BufIds |-> Buffer("free", "none")]
    /\ textParam = NoTextParam
    /\ textUsed = NoTextUse

BlobInit ==
    /\ blobIn \in [len : 0..MaxBlobLen, esize : ElemSizes \cup {VoidSize}]
    /\ blobOut = NoResult
    /\ EngineIdle
    /\ StmtIdle
    /\ TxIdle
    /\ OwnIdle
    /\ RowIdle
    /\ ReuseIdle
    /\ TextIdle

DecodeBlob ==
    /\ blobOut = NoResult
    /\ blobOut' = loader_blob_get(blobIn.len, blobIn.esize)
    /\ UNCHANGED <<blobIn, rowVars, fetched, textVars, engVars, stmtVars,
                   txVars, ownVars>>

DecodeVector ==
    /\ blobOut = NoResult
    /\ blobIn.esize # VoidSize
    /\ blobOut' = loader_vector_get(blobIn.len, blobIn.esize)
    /\ UNCHANGED <<blobIn, rowVars, fetched, textVars, engVars, stmtVars,
                   txVars, ownVars>>

BlobNext == DecodeBlob \/ DecodeVector

SpecBlob == BlobInit /\ [][BlobNext]_vars

-----------------------------------------------------------------------------
(* A caller decoding the row a statement is positioned on *)

ColumnLists == UNION {[1..n -> ColumnValues] : n \in 1..MaxCols}

TypeLists == UNION {[1..n -> Types] : n \in 0..MaxTypes}

\* The last step() returned true: the statement stands on its pos-th row.
RowInit ==
    /\ BlobIdle
    /\ EngineIdle
    /\ StmtIdle
    /\ TxIdle
    /\ OwnIdle
    /\ rowCols \in ColumnLists
    /\ rowAt \in {RowPos("row", pos) : pos \in 1..MaxRows}
    /\ got = NoGot
    /\ ReuseIdle
    /\ TextIdle

\* stmt.get<Index, T>()
RowGet(Index, T, oob) ==
    /\ got = NoGot
    /\ got' = Got("get", Index, <<T>>, <<get(rowCols, Index, T, oob)>>, oob,
                   rowAt)
    /\ UNCHANGED <<rowCols, rowAt, fetched, textVars, blobVars, engVars,
                   stmtVars, txVars, ownVars>>

\* stmt.get_all<T1, ..., Tn>()
RowGetAll(Ts, oob) ==
    /\ got = NoGot
    /\ got' = Got("get_all", 0, Ts, get_all(rowCols, Ts, oob), oob, rowAt)
    /\ UNCHANGED <<rowCols, rowAt, fetched, textVars, blobVars, engVars,
                   stmtVars, txVars, ownVars>>

RowNext ==
    \/ \E Index \in 0..MaxCols, T \in Types, oob \in ColumnValues :
            RowGet(Index, T, oob)
    \/ \E Ts \in TypeLists, oob \in ColumnValues : RowGetAll(Ts, oob)

SpecRow == RowInit /\ [][RowNext]_vars

-----------------------------------------------------------------------------
(* A caller driving one statement: execute, step, reset, destroy *)

ArgLists == UNION {[1..k -> Values] : k \in 0..MaxArgs}

\* The results a native step call can have whatever the data is.
Faults == {"none", "BUSY", "IOERR"}

StmtInit ==
    /\ BlobIdle
    /\ rows = {}
    /\ savepoints = <<>>
    /\ autoreset \in BOOLEAN
    /\ StmtIdle
    /\ TxIdle
    /\ OwnIdle
    /\ RowIdle
    /\ ReuseIdle
    /\ TextIdle

\* auto stmt = db.execute(sql, args...)
StmtExecute(sql, args, ok) ==
    LET r == execute(Engine(rows, savepoints), sql, args, ok, autoreset)
    IN  /\ stmt = NoStmt
        /\ stmt' = r.stmt
        /\ rows' = r.eng.rows
        /\ savepoints' = r.eng.savepoints
        /\ exhausted' = FALSE
        /\ last' = Op("execute", IF r.threw THEN "throw" ELSE "stmt", <<>>,
                       args, "none", rows, FALSE)
        /\ UNCHANGED <<blobVars, rowVars, fetched, textVars, autoreset,
                       txVars, ownVars>>

\* stmt.step()
StmtStep(fault) ==
    LET r == step(stmt, Engine(rows, savepoints), fault, autoreset)
    IN  /\ stmt # NoStmt
        /\ Len(stmt.trace) < MaxTrace
        /\ stmt' = r.stmt
        /\ rows' = r.eng.rows
        /\ savepoints' = r.eng.savepoints
        /\ exhausted' = (exhausted \/ r.ret = "false")
        /\ last' = Op("step", r.ret, r.natives, <<>>, fault, rows, exhausted)
        /\ UNCHANGED <<blobVars, rowVars, fetched, textVars, autoreset,
                       txVars, ownVars>>

\* stmt.reset()
StmtReset ==
    /\ stmt # NoStmt
    /\ Len(stmt.trace) < MaxTrace
    /\ stmt' = reset(stmt)
    /\ exhausted' = FALSE
    /\ last' = Op("reset", "none", <<>>, <<>>, "none", rows, exhausted)
    /\ UNCHANGED <<blobVars, rowVars, fetched, textVars, engVars, txVars,
                   ownVars>>

\* stmt.bind_multiple(args...)
StmtBind(args) ==
    LET r == bind_multiple(stmt, args)
    IN  /\ stmt # NoStmt
        /\ Len(stmt.trace) + Len(args) <= MaxTrace
        /\ stmt' = r
        /\ last' = [Op("bind", "none", <<>>, args, "none", rows, exhausted)
                    EXCEPT !.paramsBefore = stmt.params]
        /\ UNCHANGED <<blobVars, rowVars, fetched, textVars, engVars,
                       exhausted, txVars, ownVars>>

\* stmt goes out of scope: ~statement finalizes the native statement.
StmtDestroy ==
    /\ stmt # NoStmt
    /\ stmt' = NoStmt
    /\ exhausted' = FALSE
    /\ last' = Op("destroy", "none", <<>>, <<>>, "none", rows, exhausted)
    /\ UNCHANGED <<blobVars, rowVars, fetched, textVars, engVars, txVars,
                   ownVars>>

StmtNext ==
    \/ \E sql \in {InsertSql, SelectSql, RangeSql}, args \in ArgLists,
          ok \in BOOLEAN :
            StmtExecute(sql, args, ok)
    \/ \E args \in ArgLists : StmtBind(args)
    \/ \E fault \in Faults : StmtStep(fault)
    \/ StmtReset
    \/ StmtDestroy

SpecStmt == StmtInit /\ [][StmtNext]_vars

-----------------------------------------------------------------------------
(* A caller reusing one prepared query: step, reset, bind again, step *)

\* The row the statement stands on after a step that returned true.
CurrentRow(s, rs) == Nth(Matching(s, rs), s.pos)

\* The parameters after binding args over the parameters bound before.
Rebound(before, args) ==
    [i \in 1..Len(before) |-> IF i <= Len(args) THEN args[i] ELSE before[i]]

\* The argument lists that bind every parameter of the query.
ParamLists == [1..nparams(RangeSql) -> Values]

\* The table holds a row of every value; no statement exists yet.
ReuseInit ==
    /\ BlobIdle
    /\ RowIdle
    /\ TextIdle
    /\ rows = Values
    /\ savepoints = <<>>
    /\ autoreset \in BOOLEAN
    /\ StmtIdle
    /\ ReuseIdle
    /\ TxIdle
    /\ OwnIdle

\* auto stmt = db.execute("select id from foo where id between ? and ?", args...)
ReuseExecute(args, ok) ==
    LET r == execute(Engine(rows, savepoints), RangeSql, args, ok, autoreset)
    IN  /\ stmt = NoStmt
        /\ last.op = "none"
        /\ stmt' = r.stmt
        /\ exhausted' = FALSE
        /\ last' = Op("execute", IF r.threw THEN "throw" ELSE "stmt", <<>>,
                       args, "none", rows, FALSE)
        /\ fetched' = Fetched(<<>>, TRUE,
                              Rebound([i \in 1..nparams(RangeSql) |-> NULL],
                                      args))
        /\ UNCHANGED <<blobVars, rowVars, textVars, engVars, txVars, ownVars>>

\* if (stmt.step()) the caller takes the row
ReuseStep ==
    LET r == step(stmt, Engine(rows, savepoints), "none", autoreset)
    IN  /\ stmt # NoStmt
        /\ Len(stmt.trace) < MaxCalls
        /\ stmt' = r.stmt
        /\ rows' = r.eng.rows
        /\ savepoints' = r.eng.savepoints
        /\ exhausted' = (exhausted \/ r.ret = "false")
        /\ last' = [Op("step", r.ret, r.natives, <<>>, "none", rows, exhausted)
                    EXCEPT !.pcBefore = stmt.pc]
        /\ fetched' =
             Fetched(IF r.ret = "true"
                     THEN Append(fetched.rows, CurrentRow(r.stmt, r.eng.rows))
                     ELSE fetched.rows,
                     fetched.clean /\ ~exhausted /\ r.ret # "throw",
                     fetched.bound)
        /\ UNCHANGED <<blobVars, rowVars, textVars, autoreset, txVars,
                       ownVars>>

\* stmt.reset(): the caller starts over
ReuseReset ==
    /\ stmt # NoStmt
    /\ Len(stmt.trace) < MaxCalls
    /\ stmt' = reset(stmt)
    /\ exhausted' = FALSE
    /\ last' = [Op("reset", "none", <<>>, <<>>, "none", rows, exhausted)
                EXCEPT !.pcBefore = stmt.pc, !.paramsBefore = stmt.params]
    /\ fetched' = Fetched(<<>>, TRUE, fetched.bound)
    /\ UNCHANGED <<blobVars, rowVars, textVars, engVars, txVars, ownVars>>

\* stmt.bind_multiple(args...)
ReuseBind(args) ==
    /\ stmt # NoStmt
    /\ Len(stmt.trace) + Len(args) <= MaxCalls
    /\ stmt' = bind_multiple(stmt, args)
    /\ last' = [Op("bind", "none", <<>>, args, "none", rows, exhausted)
                EXCEPT !.pcBefore = stmt.pc, !.paramsBefore = stmt.params]
    /\ fetched' = [fetched EXCEPT !.bound = IF stmt.pc = "ready"
                                            THEN Rebound(@, args) ELSE @]
    /\ UNCHANGED <<blobVars, rowVars, textVars, engVars, exhausted, txVars,
                   ownVars>>

ReuseNext ==
    \/ \E args \in ParamLists, ok \in BOOLEAN : ReuseExecute(args, ok)
    \/ ReuseStep
    \/ ReuseReset
    \/ \E args \in ParamLists : ReuseBind(args)

SpecReuse == ReuseInit /\ [][ReuseNext]_vars

-----------------------------------------------------------------------------
(* A caller binding text to a statement and stepping it *)

\* The contents a text buffer can have.
Texts == {"abc", "xyz"}

\* What a read of freed memory can come to.
Junk == Texts \cup {"garbage"}

TextInit ==
    /\ BlobIdle
    /\ RowIdle
    /\ EngineIdle
    /\ StmtIdle
    /\ ReuseIdle
    /\ TxIdle
    /\ OwnIdle
    /\ TextIdle

\* std::string s = t;
TextNew(b, t) ==
    /\ buffers[b].state = "free"
    /\ buffers' = [buffers EXCEPT ![b] = Buffer("alive", t)]
    /\ UNCHANGED <<textParam, textUsed, blobVars, rowVars, fetched, engVars,
                   stmtVars, txVars, ownVars>>

\* stmt.bind(0, s) or stmt.bind_multiple(s)
TextBind(b) ==
    /\ buffers[b].state = "alive"
    /\ textParam' = bind_text(b, buffers[b].bytes)
    /\ UNCHANGED <<buffers, textUsed, blobVars, rowVars, fetched, engVars,
                   stmtVars, txVars, ownVars>>

\* auto stmt = db.execute(sql, std::string(t)): execute takes the string by
\* value; the parameter object, in slot b, is bound and ends its life when
\* execute returns.
TextExecute(b, t) ==
    /\ buffers[b].state = "free"
    /\ textParam' = bind_text(b, t)
    /\ buffers' = [buffers EXCEPT ![b] = Buffer("dead", t)]
    /\ UNCHANGED <<textUsed, blobVars, rowVars, fetched, engVars, stmtVars,
                   txVars, ownVars>>

\* s = t; the caller overwrites the buffer in place
TextModify(b, t) ==
    /\ buffers[b].state = "alive"
    /\ buffers[b].bytes # t
    /\ buffers' = [buffers EXCEPT ![b] = Buffer("alive", t)]
    /\ UNCHANGED <<textParam, textUsed, blobVars, rowVars, fetched, engVars,
                   stmtVars, txVars, ownVars>>

\* s goes out of scope
TextFree(b) ==
    /\ buffers[b].state = "alive"
    /\ buffers' = [buffers EXCEPT ![b] = Buffer("dead", @.bytes)]
    /\ UNCHANGED <<textParam, textUsed, blobVars, rowVars, fetched, engVars,
                   stmtVars, txVars, ownVars>>

\* stmt.step(): the engine reads the parameter
TextStep(junk) ==
    /\ textParam.kind # "null"
    /\ textUsed' = [op |-> "step",
                    read |-> sqlite3_step_reads(textParam, buffers, junk),
                    bound |-> textParam.bound,
                    dead |-> /\ textParam.kind = "static"
                             /\ buffers[textParam.ptr].state # "alive"]
    /\ UNCHANGED <<buffers, textParam, blobVars, rowVars, fetched, engVars,
                   stmtVars, txVars, ownVars>>

TextNext ==
    \/ \E b \in BufIds, t \in Texts : TextExecute(b, t)
    \/ \E b \in BufIds, t \in Texts : TextNew(b, t)
    \/ \E b \in BufIds : TextBind(b)
    \/ \E b \in BufIds, t \in Texts : TextModify(b, t)
    \/ \E b \in BufIds : TextFree(b)
    \/ \E junk \in Junk : TextStep(junk)

SpecText == TextInit /\ [][TextNext]_vars

-----------------------------------------------------------------------------
(* A caller running nested atomic blocks on one database object *)

TxInit ==
    /\ BlobIdle
    /\ EngineIdle
    /\ StmtIdle
    /\ TxIdle
    /\ OwnIdle
    /\ RowIdle
    /\ ReuseIdle
    /\ TextIdle

Top == frames[Len(frames)]

Pop == SubSeq(frames, 1, Len(frames) - 1)

\* The parent of a block that is in no other block.
Outermost == -1

\* The record of an atomic call that has returned or thrown.
Finished(f, workRan, workErr, out, resolveOk) ==
    [id |-> f.id, depth |-> Len(frames), workRan |-> workRan,
     workErr |-> workErr,
     result |-> IF out.threw THEN "threw" ELSE "returned", err |-> out.err,
     wrote |-> f.wrote, inner |-> f.inner, innerAfter |-> f.innerAfter,
     resolveOk |-> resolveOk, beginOk |-> TRUE,
     parent |-> IF Len(frames) >= 2 THEN frames[Len(frames) - 1].id
                ELSE Outermost]

\* An exception leaving atomic reaches the enclosing work, if there is
\* one; the outermost caller catches it.
Reaches(err, stack) == IF stack = <<>> THEN "none" ELSE err

\* db.atomic(work), from its call to the start of work.
AtomicEnter(fail) ==
    LET a == next_id(transaction_id)
        id == a.id
        out == atomic_begin(Engine(rows, savepoints), id, ~fail, autoreset)
    IN  /\ exc = "none"
        /\ transaction_id < MaxAtomic
        /\ Len(frames) < MaxDepth
        /\ transaction_id' = a.transaction_id
        /\ rows' = out.eng.rows
        /\ savepoints' = out.eng.savepoints
        /\ issued' = issued \o out.issued
        /\ IF out.threw
           THEN /\ done' = Append(done, [Finished(Frame(id), FALSE, "none", out,
                                                  FALSE)
                                         EXCEPT !.depth = Len(frames) + 1,
                                                !.beginOk = ~fail,
                                                !.parent =
                                                   IF frames = <<>>
                                                   THEN Outermost
                                                   ELSE Top.id])
                /\ exc' = Reaches(out.err, frames)
                /\ UNCHANGED frames
           ELSE /\ frames' = Append(frames, Frame(id))
                /\ UNCHANGED <<done, exc>>
        /\ UNCHANGED <<ownVars, blobVars, rowVars, fetched, textVars,
                       stmtVars, autoreset, seen, seenAt, nextRow>>

\* The work of the innermost block writes a new row.
WorkWrite(fail, fault) ==
    LET w == work_write(Engine(rows, savepoints), nextRow, ~fail, fault,
                        autoreset)
    IN  /\ exc = "none"
        /\ frames # <<>>
        /\ nextRow <= MaxRows
        /\ rows' = w.eng.rows
        /\ savepoints' = w.eng.savepoints
        /\ IF w.threw
           THEN exc' = "SqlError" /\ UNCHANGED <<frames, nextRow>>
           ELSE /\ frames' = [frames EXCEPT ![Len(frames)].wrote = @ \cup {nextRow}]
                /\ nextRow' = nextRow + 1
                /\ UNCHANGED exc
        /\ UNCHANGED <<ownVars, issued, blobVars, rowVars, fetched, textVars,
                       stmtVars, autoreset, transaction_id, done, seen,
                       seenAt>>

\* The work of the innermost block throws.
WorkRaise ==
    /\ exc = "none"
    /\ frames # <<>>
    /\ exc' = "AppError"
    /\ UNCHANGED <<ownVars, issued, blobVars, rowVars, fetched, textVars,
                   engVars, stmtVars, transaction_id, frames, done, seen,
                   seenAt, nextRow>>

\* The work catches the exception of a statement or of an inner block.
WorkCatch ==
    /\ exc # "none"
    /\ frames # <<>>
    /\ exc' = "none"
    /\ UNCHANGED <<ownVars, issued, blobVars, rowVars, fetched, textVars,
                   engVars, stmtVars, transaction_id, frames, done, seen,
                   seenAt, nextRow>>

\* The exception leaves the work: atomic's catch block runs.
AtomicUnwind(fail) ==
    LET out == atomic_catch(Engine(rows, savepoints), Top.id, exc, ~fail,
                           autoreset)
    IN  /\ exc # "none"
        /\ frames # <<>>
        /\ rows' = out.eng.rows
        /\ savepoints' = out.eng.savepoints
        /\ done' = Append(done, Finished(Top, TRUE, exc, out, ~fail))
        /\ issued' = issued \o out.issued
        /\ frames' = Pop
        /\ exc' = Reaches(out.err, Pop)
        /\ UNCHANGED <<ownVars, blobVars, rowVars, fetched, textVars,
                       stmtVars, autoreset, transaction_id, seen, seenAt,
                       nextRow>>

\* The rows an inner block hands to the block around it when it returns.
Released(f) == f.wrote \cup f.inner

\* The work returns: atomic runs execute(commit_sql) and returns.
AtomicReturn(fail) ==
    LET out == atomic_commit(Engine(rows, savepoints), Top.id, ~fail, autoreset)
        rest == Pop
    IN  /\ exc = "none"
        /\ frames # <<>>
        /\ rows' = out.eng.rows
        /\ savepoints' = out.eng.savepoints
        /\ done' = Append(done, Finished(Top, TRUE, "none", out, ~fail))
        /\ issued' = issued \o out.issued
        /\ frames' =
             IF rest = <<>> \/ out.threw THEN rest
             ELSE [rest EXCEPT
                     ![Len(rest)].inner = @ \cup Released(Top),
                     ![Len(rest)].innerAfter =
                         IF rest[Len(rest)].wrote = {} THEN @
                         ELSE @ \cup Released(Top)]
        /\ exc' = Reaches(out.err, rest)
        /\ UNCHANGED <<ownVars, blobVars, rowVars, fetched, textVars,
                       stmtVars, autoreset, transaction_id, seen, seenAt,
                       nextRow>>

\* The caller queries the table.
Query ==
    /\ exc = "none"
    /\ seen' = query(Engine(rows, savepoints))
    /\ seenAt' = Len(done)
    /\ UNCHANGED <<ownVars, issued, blobVars, rowVars, fetched, textVars,
                   engVars, stmtVars, transaction_id, frames, done, exc,
                   nextRow>>

Next ==
    \/ WorkRaise
    \/ \E fail \in BOOLEAN, fault \in Faults : WorkWrite(fail, fault)
    \/ WorkCatch
    \/ \E fail \in BOOLEAN : AtomicEnter(fail)
    \/ \E fail \in BOOLEAN : AtomicUnwind(fail)
    \/ \E fail \in BOOLEAN : AtomicReturn(fail)
    \/ Query

Spec == TxInit /\ [][Next]_vars

-----------------------------------------------------------------------------
(* A caller creating, moving and destroying database and statement objects *)

OwnInit ==
    /\ BlobIdle
    /\ EngineIdle
    /\ StmtIdle
    /\ TxIdle
    /\ OwnIdle
    /\ RowIdle
    /\ ReuseIdle
    /\ TextIdle

Allocated == DOMAIN handles

NewHandle == Len(handles) + 1

Alloc(kind) == Append(handles, [kind |-> kind, released |-> 0])

\* database db(filename, flags)
DbOpen(d, outcome) ==
    LET c == database_ctor(NewHandle, outcome)
    IN  /\ dbObj[d] = NoObject
        /\ Len(handles) < MaxHandles
        /\ handles' = IF c.db = Nullptr THEN handles ELSE Alloc("db")
        /\ dbObj' = IF c.threw THEN dbObj ELSE [dbObj EXCEPT ![d] = c.db]
        /\ counter' = [counter EXCEPT ![d] = 0]
        /\ lastOpen' = [threw |-> c.threw, h |-> c.db]
        /\ UNCHANGED <<blobVars, rowVars, fetched, textVars, engVars,
                       stmtVars, txVars, stObj, names>>

\* database dst(std::move(src))
DbMove(src, dst) ==
    LET m == database_move_ctor(dbObj[src])
        id == database_move_ctor_id(counter[src])
    IN  /\ dbObj[src] # NoObject
        /\ dbObj[dst] = NoObject
        /\ dbObj' = [dbObj EXCEPT ![dst] = m.this, ![src] = m.other]
        /\ counter' = [counter EXCEPT ![dst] = id.this, ![src] = id.other]
        /\ UNCHANGED <<blobVars, rowVars, fetched, textVars, engVars,
                       stmtVars, txVars, stObj, handles, lastOpen, names>>

\* The database object goes out of scope, normally or while an exception
\* unwinds the stack.
DbDestroy(d) ==
    /\ dbObj[d] # NoObject
    /\ handles' = database_dtor(handles, dbObj[d])
    /\ dbObj' = [dbObj EXCEPT ![d] = NoObject]
    /\ counter' = [counter EXCEPT ![d] = 0]
    /\ UNCHANGED <<blobVars, rowVars, fetched, textVars, engVars, stmtVars,
                   txVars, stObj, lastOpen, names>>

\* statement s = db.prepare(sql)
StPrepare(d, s, fail) ==
    LET c == statement_ctor_handle(dbObj[d], NewHandle, fail)
    IN  /\ dbObj[d] # NoObject
        /\ stObj[s] = NoObject
        /\ Len(handles) < MaxHandles
        /\ handles' = IF c.stmt = Nullptr THEN handles ELSE Alloc("stmt")
        /\ stObj' = IF c.threw THEN stObj ELSE [stObj EXCEPT ![s] = c.stmt]
        /\ UNCHANGED <<blobVars, rowVars, fetched, textVars, engVars,
                       stmtVars, txVars, dbObj, lastOpen, counter, names>>

\* statement s;
StDefault(s) ==
    /\ stObj[s] = NoObject
    /\ stObj' = [stObj EXCEPT ![s] = Nullptr]
    /\ UNCHANGED <<blobVars, rowVars, fetched, textVars, engVars, stmtVars,
                   txVars, dbObj, handles, lastOpen, counter, names>>

\* statement dst(std::move(src))
StMoveConstruct(src, dst) ==
    LET m == statement_move_ctor(stObj[src])
    IN  /\ stObj[src] # NoObject
        /\ stObj[dst] = NoObject
        /\ stObj' = [stObj EXCEPT ![dst] = m.this, ![src] = m.other]
        /\ UNCHANGED <<blobVars, rowVars, fetched, textVars, engVars,
                       stmtVars, txVars, dbObj, handles, lastOpen, counter,
                       names>>

\* dst = std::move(src), also with src and dst the same object
StMoveAssign(src, dst) ==
    LET m == statement_move_assign(handles, stObj[dst], stObj[src], src = dst)
    IN  /\ stObj[src] # NoObject
        /\ stObj[dst] # NoObject
        /\ handles' = m.hs
        /\ stObj' = [stObj EXCEPT ![src] = m.other, ![dst] = m.this]
        /\ UNCHANGED <<blobVars, rowVars, fetched, textVars, engVars,
                       stmtVars, txVars, dbObj, lastOpen, counter, names>>

\* The statement object goes out of scope, normally or while an exception
\* unwinds the stack.
StDestroy(s) ==
    /\ stObj[s] # NoObject
    /\ handles' = statement_dtor(handles, stObj[s])
    /\ stObj' = [stObj EXCEPT ![s] = NoObject]
    /\ UNCHANGED <<blobVars, rowVars, fetched, textVars, engVars, stmtVars,
                   txVars, dbObj, lastOpen, counter, names>>

OwnNext ==
    \/ \E d \in DbSlots, outcome \in {"ok", "error", "nomem"} :
            DbOpen(d, outcome)
    \/ \E src, dst \in DbSlots : DbMove(src, dst)
    \/ \E d \in DbSlots : DbDestroy(d)
    \/ \E d \in DbSlots, s \in StSlots, fail \in BOOLEAN : StPrepare(d, s, fail)
    \/ \E s \in StSlots : StDefault(s)
    \/ \E src, dst \in StSlots : StMoveConstruct(src, dst)
    \/ \E src, dst \in StSlots : StMoveAssign(src, dst)
    \/ \E s \in StSlots : StDestroy(s)

SpecOwn == OwnInit /\ [][OwnNext]_vars

-----------------------------------------------------------------------------
(* A caller moving a database object between atomic calls *)

\* db.atomic(work) on the object in slot d, as far as the object's members
\* go: it takes the id, and passes "savepoint s<id>" to the engine over the
\* object's handle. On a null handle sqlite3_prepare_v2 fails and nothing
\* goes to any connection.
DbAtomic(d) ==
    LET a == next_id(counter[d])
    IN  /\ dbObj[d] # NoObject
        /\ counter[d] < MaxAtomic
        /\ counter' = [counter EXCEPT ![d] = a.transaction_id]
        /\ names' = IF dbObj[d] = Nullptr THEN names
                    ELSE [names EXCEPT ![dbObj[d]] = Append(@, a.id)]
        /\ UNCHANGED <<blobVars, rowVars, fetched, textVars, engVars,
                       stmtVars, txVars, handles, dbObj, stObj, lastOpen>>

MoveNext ==
    \/ \E d \in DbSlots : DbOpen(d, "ok")
    \/ \E d \in DbSlots : DbAtomic(d)
    \/ \E src, dst \in DbSlots : DbMove(src, dst)
    \/ \E d \in DbSlots : DbDestroy(d)

SpecMove == OwnInit /\ [][MoveNext]_vars

-----------------------------------------------------------------------------
(* C5, C6 *)

\* The live objects whose handle member is h.
Owners(h) ==
    {<<"db", d>> : d \in {x \in DbSlots : dbObj[x] = h}}
        \cup {<<"stmt", s>> : s \in {x \in StSlots : stObj[x] = h}}

\* C5: every native handle is owned by exactly one wrapper object until it
\* is released, and is released exactly once: a handle not yet released has
\* one owner, a released handle has none and was released once, and no
\* handle is left without an owner and unreleased.
C5_ExclusiveOwnershipReleasedOnce ==
    \A h \in Allocated :
        /\ handles[h].released <= 1
        /\ handles[h].released = 0 => Cardinality(Owners(h)) = 1
        /\ handles[h].released = 1 => Owners(h) = {}

\* C6: when opening fails, the constructor throws and no connection handle
\* stays live: a handle the engine allocated in the failed open has been
\* released.
C6_FailedOpenLeavesNoHandle ==
    lastOpen.threw =>
        lastOpen.h = Nullptr \/ handles[lastOpen.h].released >= 1

-----------------------------------------------------------------------------
(* C1, C2, C3, C4 *)

\* Finished atomic call i ran its work, and the caller has queried the
\* table since the call ended.
QueriedAfter(i) == i <= seenAt

\* C1: rollback. When the work of atomic(work) wrote a row and then threw,
\* and atomic has propagated the error, a later query on the connection
\* does not return the row. Stated for the calls whose rollback statement
\* the engine accepted.
C1_RollbackLeavesNoTrace ==
    \A i \in 1..Len(done) :
        (/\ done[i].workErr # "none"
         /\ done[i].wrote # {}
         /\ done[i].result = "threw"
         /\ done[i].resolveOk
         /\ QueriedAfter(i)) => done[i].wrote \cap seen = {}

\* C2: nesting. When an outer block wrote row A, then ran an inner block
\* that wrote row B and returned normally, and the outer work then threw,
\* a query after the outer atomic has propagated the error returns neither
\* A nor B. Stated for the calls whose rollback statement the engine
\* accepted.
C2_OuterRollbackCoversInner ==
    \A i \in 1..Len(done) :
        (/\ done[i].workErr # "none"
         /\ done[i].wrote # {}
         /\ done[i].innerAfter # {}
         /\ done[i].result = "threw"
         /\ done[i].resolveOk
         /\ QueriedAfter(i)) =>
            (done[i].wrote \cup done[i].innerAfter) \cap seen = {}

\* The caller has queried the table since call i ended, and no block around
\* call i had ended when it did: a block around it is less deep and ends
\* later.
QueriedRightAfter(i) ==
    /\ QueriedAfter(i)
    /\ \A j \in (i + 1)..seenAt : done[j].depth >= done[i].depth

\* The calls C3 is about: the work ran, wrote a row and returned.
WroteAndReturned(i) ==
    /\ done[i].workRan
    /\ done[i].workErr = "none"
    /\ done[i].wrote # {}

\* C3 as stated: commit. When the work of atomic(work) wrote a row and
\* returned without throwing, atomic returns normally and a query that
\* follows on the connection returns the row.
C3_CommitAsStated ==
    \A i \in 1..Len(done) :
        WroteAndReturned(i) =>
            /\ done[i].result = "returned"
            /\ QueriedRightAfter(i) => done[i].wrote \subseteq seen

\* C3, amended: when the work of atomic(work) wrote a row and returned
\* without throwing, atomic returns normally unless the engine rejects the
\* release statement, and then the error of that statement leaves atomic;
\* either way a query that follows on the connection returns the row.
C3_Commit ==
    \A i \in 1..Len(done) :
        WroteAndReturned(i) =>
            /\ done[i].result = "returned" <=> done[i].resolveOk
            /\ ~done[i].resolveOk => done[i].err = "ReleaseFailed"
            /\ QueriedRightAfter(i) => done[i].wrote \subseteq seen

\* A block wrote a row and returned normally, and a query made afterwards
\* returned the row.
C3_Witness ==
    \E i \in 1..Len(done) :
        /\ WroteAndReturned(i)
        /\ done[i].result = "returned"
        /\ QueriedRightAfter(i)
        /\ done[i].wrote \subseteq seen

\* C4: when the work of atomic throws E, the exception that leaves atomic
\* is E, also when the rollback statement fails.
C4_OriginalErrorPropagates ==
    \A i \in 1..Len(done) :
        done[i].workErr # "none" => done[i].err = done[i].workErr

-----------------------------------------------------------------------------
(* C7, C8, C9 *)

\* C7: step() makes exactly one native step call; it returns true exactly
\* when that call's result is SQLITE_ROW, false exactly when it is
\* SQLITE_DONE, and throws on every other result, without a retry.
C7_StepMapsNativeResult ==
    last.op = "step" =>
        /\ Len(last.natives) = 1
        /\ last.ret = "true" <=> last.natives[1] = "ROW"
        /\ last.ret = "false" <=> last.natives[1] = "DONE"
        /\ last.natives[1] \notin {"ROW", "DONE"} => last.ret = "throw"

\* step() has thrown on a busy engine after its one native call.
C7_Witness ==
    /\ last.op = "step"
    /\ last.natives = <<"BUSY">>
    /\ last.ret = "throw"

\* C8: exhaustion. Once step() has returned false, a later step() with no
\* reset() in between returns false too: the result set is not produced
\* again. Stated for a select, for the default build of the engine and for
\* the steps during which the engine reports no fault of its own.
C8_ExhaustedStaysExhausted ==
    (/\ last.op = "step"
     /\ last.wasExhausted
     /\ last.fault = "none"
     /\ autoreset
     /\ stmt.sql = SelectSql) => last.ret = "false"

\* The call trace execute leaves on the statement it returns: prepare, then
\* reset, then one bind for each argument.
ExecuteTrace(args) == <<"prepare", "reset">> \o [i \in 1..Len(args) |-> "bind"]

\* C9: execute(sql, args...) prepares, resets and binds args by position,
\* and returns the statement unstepped: it is at its start, has produced
\* no row, and the table is as it was. The table changes only in step().
C9_ExecuteDoesNotStep ==
    /\ (last.op = "execute" /\ last.ret = "stmt") =>
            /\ stmt.trace = ExecuteTrace(last.args)
            /\ stmt.pc = "ready"
            /\ stmt.pos = 0
            /\ \A i \in 1..Len(stmt.params) :
                    stmt.params[i] = IF i <= Len(last.args)
                                     THEN last.args[i] ELSE NULL
    /\ rows # last.rowsBefore => last.op = "step"

\* execute has returned an insert with its value bound, and the table is
\* still empty.
C9_Witness ==
    /\ last.op = "execute"
    /\ stmt.sql = InsertSql
    /\ stmt.params = <<1>>
    /\ rows = {}

-----------------------------------------------------------------------------
(* C10 *)

\* Whether length is a whole number of elements of size esize.
Divides(esize, length) == \E k \in 0..length : k * esize = length

\* C10: blob size validation. A column of L bytes decoded as vector<T> or
\* blob<T> with S = sizeof(T) succeeds, with exactly L/S elements, iff S
\* divides L, and otherwise throws and returns nothing; L = 0 succeeds with
\* zero elements; decoded as blob<void> it never throws and has size L.
C10_BlobSizeValidation ==
    blobOut # NoResult =>
        IF blobIn.esize = VoidSize
        THEN ~blobOut.threw /\ blobOut.size = blobIn.len
        ELSE /\ ~blobOut.threw <=> Divides(blobIn.esize, blobIn.len)
             /\ ~blobOut.threw => blobOut.size * blobIn.esize = blobIn.len
             /\ blobOut.threw => blobOut.size = -1
             /\ blobIn.len = 0 => ~blobOut.threw /\ blobOut.size = 0

\* A vector<T> decode of a length that sizeof(T) does not divide has thrown.
C10_Witness ==
    /\ blobOut.target = "vector"
    /\ blobIn.esize = 4
    /\ blobIn.len = 6
    /\ blobOut.threw


-----------------------------------------------------------------------------
(* C11 *)

\* The column a decode of the last get or get_all read for its k-th type.
ColumnRead(k) ==
    ColumnAt(rowCols, IF got.op = "get" THEN got.index ELSE k - 1, got.oob)

\* C11: a column decoded as optional<T> comes out absent exactly when its
\* native type is NULL, for every T, and otherwise present with the value
\* the same column decodes to as plain T.
C11_OptionalAbsentIffNull ==
    \A k \in 1..Len(got.Ts) :
        got.Ts[k].optional =>
            /\ ~got.result[k].present <=> ColumnRead(k).type = "NULL"
            /\ got.result[k].present =>
                 got.result[k] = loader_plain_get(got.Ts[k].base, ColumnRead(k))

C11_Witness ==
    /\ got.op = "get_all"
    /\ Len(got.Ts) = 2
    /\ got.Ts[1] = Type("int32", TRUE)
    /\ got.Ts[2] = Type("string", TRUE)
    /\ Len(rowCols) = 2
    /\ rowCols[1] = Column("INTEGER", Zero)
    /\ rowCols[2] = NullColumn
    /\ got.result[1] = Decoded(TRUE, "int", Zero)
    /\ got.result[2] = Absent

-----------------------------------------------------------------------------
(* C13 *)

\* C13: on a row, get_all<T1..Tn> returns for each k the decode of column
\* ordinal k-1 as Tk and get<Index, T> the decode of column ordinal Index
\* as T; the statement stays on the same row, and asking for more columns
\* than the row has is not refused: the call returns all the same.
C13_PositionalDecode ==
    /\ got.op # "none" =>
         /\ rowAt = got.before
         /\ Len(got.result) = Len(got.Ts)
    /\ got.op = "get_all" =>
         \A k \in 1..Len(got.Ts) :
            k <= Len(rowCols) =>
               got.result[k] = loader_get(got.Ts[k], rowCols[k])
    /\ got.op = "get" /\ got.index < Len(rowCols) =>
         got.result[1] = loader_get(got.Ts[1], rowCols[got.index + 1])

\* Two types asked of a row that has one column, which holds 2^32 + 1 and
\* is read as a 32-bit integer.
C13_Witness ==
    /\ got.op = "get_all"
    /\ Len(rowCols) = 1
    /\ Len(got.Ts) = 2
    /\ rowCols[1] = Column("INTEGER", Int64(1, 1))
    /\ got.Ts[1] = Type("int32", FALSE)
    /\ got.result[1] = Decoded(TRUE, "int", Int64(0, 1))
    /\ rowAt = got.before

-----------------------------------------------------------------------------
(* C18 *)

\* The statement was bindable when the last bind_multiple ran: execute
\* binds right after its reset, and a bind leaves pc as it was.
WasBindable == last.op = "execute" \/ stmt.pc = "ready"

\* C18: bind_multiple(a0..ak) makes its native binds in call order, a_i to
\* position i+1, and touches no other position; a bind that fails stops
\* nothing and undoes nothing, so the elements before it remain bound.
C18_BindsInOrderByPosition ==
    (last.op = "bind" \/ (last.op = "execute" /\ last.ret = "stmt")) =>
        /\ Len(stmt.binds) = Len(last.args)
        /\ \A i \in 1..Len(last.args) :
              /\ stmt.binds[i].pos = i
              /\ stmt.binds[i].v = last.args[i]
              /\ stmt.binds[i].rc = "OK" <=>
                    (WasBindable /\ i <= Len(stmt.params))
        /\ \A i \in 1..Len(stmt.params) :
              stmt.params[i] =
                 IF WasBindable /\ i <= Len(last.args) THEN last.args[i]
                 ELSE IF last.op = "bind" THEN last.paramsBefore[i]
                 ELSE NULL

\* Two arguments bound to a statement with one parameter: the second bind
\* fails and the first argument is bound.
C18_Witness ==
    /\ last.op = "bind"
    /\ stmt.sql = InsertSql
    /\ last.paramsBefore = <<2>>
    /\ last.args = <<1, 2>>
    /\ stmt.binds[2].rc = "RANGE"
    /\ stmt.params = <<1>>


-----------------------------------------------------------------------------
(* C12 *)

\* What the engine keeps of a statement, without the logs of the model.
StateOf(s) == [sql |-> s.sql, params |-> s.params, pc |-> s.pc, pos |-> s.pos]

\* The result set of the parameters the caller has bound.
Expected == ResultSet([stmt EXCEPT !.params = fetched.bound], rows)

\* C12: from any state reset() leaves the statement at its start, ready to
\* be bound, and a second reset changes nothing; the rows stepped after a
\* reset and a rebind are those of the parameters now bound, from the
\* first on, whatever was bound and however many rows were taken before.
C12_ResetAndRebind ==
    /\ last.op = "reset" =>
         /\ stmt.pc = "ready"
         /\ stmt.pos = 0
         /\ StateOf(reset(stmt)) = StateOf(stmt)
    /\ (stmt # NoStmt /\ fetched.clean) =>
         /\ Len(fetched.rows) = stmt.pos
         /\ Len(fetched.rows) <= Len(Expected)
         /\ fetched.rows = SubSeq(Expected, 1, Len(fetched.rows))
         /\ exhausted => fetched.rows = Expected

\* A query of two rows left after its first row, reset, bound again and
\* stepped to its end: the one row of the new parameters.
C12_Witness ==
    /\ rows = {1, 2}
    /\ Len(stmt.trace) = 10
    /\ stmt.trace[5] = "step"
    /\ stmt.trace[6] = "reset"
    /\ stmt.trace[7] = "bind"
    /\ fetched.bound = <<2, 2>>
    /\ fetched.rows = <<2>>
    /\ fetched.clean
    /\ exhausted

-----------------------------------------------------------------------------
(* C14 *)

\* C14: atomic has the engine execute "savepoint s<n>" before the work
\* starts, so while the work of a block runs the engine holds the
\* savepoint of that block.
C14_EngineHoldsSavepoint ==
    \A i \in 1..Len(frames) : FindSavepoint(savepoints, frames[i].id) # 0

-----------------------------------------------------------------------------
(* C15 *)

Resolving(sql) == sql.kind \in {"release", "rollback"}

\* Where in the log the statements resolving savepoint n stand.
ResolvedAt(n) == {i \in 1..Len(issued) : Resolving(issued[i]) /\ issued[i].n = n}

\* C15: a block whose work ran has its resolving statement issued, and the
\* resolving statement of a block is issued before that of the block
\* around it, whichever of the two returned or threw.
C15_InnerResolvesFirst ==
    \A k \in 1..Len(done) :
        done[k].workRan =>
            /\ ResolvedAt(done[k].id) # {}
            /\ \A i \in ResolvedAt(done[k].id), j \in ResolvedAt(done[k].parent) :
                  i < j

\* An inner block that threw and was rolled back inside an outer block that
\* caught the exception and returned.
C15_Witness ==
    /\ Len(done) = 2
    /\ done[1].parent = done[2].id
    /\ done[1].result = "threw"
    /\ done[2].result = "returned"
    /\ issued = <<Sql("savepoint", 0), Sql("savepoint", 1), Sql("rollback", 1),
                  Sql("release", 0)>>

-----------------------------------------------------------------------------
(* C16 *)

\* Where in the log the savepoint statements stand: one per id allocated.
AllocatedAt == {i \in 1..Len(issued) : issued[i].kind = "savepoint"}

\* C16: every atomic call takes an id greater than every id taken before on
\* the object, nested or not, whether the work returned or threw; the
\* counter stays above every id taken.
C16_IdsStrictlyIncrease ==
    /\ \A i, j \in AllocatedAt : i < j => issued[i].n < issued[j].n
    /\ \A i \in AllocatedAt : issued[i].n < transaction_id
    /\ Cardinality(AllocatedAt) = Len(frames) + Len(done)

\* A block that threw, then a second block, which takes the next id.
C16_Witness ==
    /\ Len(done) = 1
    /\ done[1].result = "threw"
    /\ done[1].workRan
    /\ done[1].id = 0
    /\ Len(frames) = 1
    /\ frames[1].id = 1
    /\ transaction_id = 2

-----------------------------------------------------------------------------
(* C20 *)

\* C20: when the savepoint statement fails, atomic throws that error, the
\* work does not run, no release or rollback is issued and the id is not
\* given again; when the release fails after the work returned, atomic
\* throws that error and issues no rollback.
C20_FailedBeginAndFailedRelease ==
    \A k \in 1..Len(done) :
        /\ ~done[k].beginOk =>
              /\ done[k].result = "threw"
              /\ done[k].err = "BeginFailed"
              /\ ~done[k].workRan
              /\ done[k].wrote = {}
              /\ ResolvedAt(done[k].id) = {}
              /\ done[k].id < transaction_id
              /\ \A m \in 1..Len(done) : done[m].id = done[k].id => m = k
              /\ \A m \in 1..Len(frames) : frames[m].id # done[k].id
        /\ (done[k].workRan /\ done[k].workErr = "none" /\ ~done[k].resolveOk) =>
              /\ done[k].result = "threw"
              /\ done[k].err = "ReleaseFailed"
              /\ \A i \in ResolvedAt(done[k].id) : issued[i].kind = "release"

\* A failed begin, then a block whose release failed.
C20_Witness ==
    /\ Len(done) = 2
    /\ ~done[1].beginOk
    /\ done[2].workRan
    /\ done[2].workErr = "none"
    /\ ~done[2].resolveOk
    /\ done[2].id = 1
    /\ issued = <<Sql("savepoint", 0), Sql("savepoint", 1), Sql("release", 1)>>

-----------------------------------------------------------------------------
(* C17 *)

\* C17: once the bind has returned the statement holds the text itself, so
\* a step reads the bytes that were bound, whatever has become of the
\* caller's buffer, and reads no buffer that has ended its life.
C17_StepUsesBoundBytes ==
    textUsed.op = "step" =>
        /\ ~textUsed.dead
        /\ textUsed.read = textUsed.bound

-----------------------------------------------------------------------------
(* C19 *)

\* No savepoint name was set twice over one handle.
NamesDistinct ==
    \A h \in DOMAIN names :
        \A i, j \in 1..Len(names[h]) : names[h][i] = names[h][j] => i = j

\* A move hands the handle and the counter to the new object and leaves the
\* source with no handle and a counter of 0.
MoveTransfers ==
    \A src, dst \in DbSlots :
        DbMove(src, dst) =>
            /\ dbObj'[dst] = dbObj[src]
            /\ counter'[dst] = counter[src]
            /\ dbObj'[src] = Nullptr
            /\ counter'[src] = 0

\* C19: a move-constructed database continues from the source's counter, so
\* the savepoint names set over one connection handle stay distinct across
\* the move; the moved-from object has no handle and its counter is 0.
C19_MoveCarriesCounter == []NamesDistinct /\ [][MoveTransfers]_vars

\* Two atomic calls on one connection, one before the move on the source
\* and one after it on the new object.
C19_Witness ==
    /\ names[1] = <<0, 1>>
    /\ dbObj[1] = Nullptr
    /\ counter[1] = 0
    /\ dbObj[2] = 1
    /\ counter[2] = 2

=============================================================================
